---------------------------- MODULE Spec2Model ----------------------------
(***************************************************************************)
(* A model of biodome (src/biodome.py): the coercion function biodome(),   *)
(* the mapping facade _Environ over os.environ, the scoped override        *)
(* env_change() and the file loader load_env_file().                       *)
(*                                                                         *)
(* A Python string is a sequence of one-character strings.  A Python value *)
(* is a record [ty, n, e, s, items, vals] of one shape for every type, so  *)
(* that any two values can be compared:                                    *)
(*   ty     the name of the value's exact type                             *)
(*   n, e   a number: n / 10^e  (bool: n in {0,1}; int: e = 0); the float  *)
(*          -0.0, which equals 0.0, is not told apart from it              *)
(*   s      the characters of a str                                        *)
(*   items  the elements of a list, tuple or set, the keys of a dict       *)
(*   vals   the values of a dict, in the order of its keys                 *)
(***************************************************************************)
EXTENDS Integers, Sequences, FiniteSets, TLC

VARIABLES
    env,       \* os.environ: a function from the names present to strings
    op,        \* the operation that produced this state
    args,      \* the arguments of the last call of biodome / environ.get
    result,    \* what the last call did: [exc, val]
    emitted,   \* the log records the last call emitted
    preEnv,    \* os.environ before the last operation
    frames,    \* the active env_change scopes, innermost last
    entryEnv,  \* for each active scope, os.environ at its entry, cut down to its name
    exited,    \* the scope the last operation left, with entryEnv's record of it
    loaded,    \* the arguments of the last load_env_file call
    accessor   \* the deferred accessors made by environ.get_callable

vars == <<env, op, args, result, emitted, preEnv, frames, entryEnv, exited,
          loaded, accessor>>

---------------------------------------------------------------------------
(* Characters and strings.                                                 *)

UpperChars == <<"A","B","C","D","E","F","G","H","I","J","K","L","M",
                "N","O","P","Q","R","S","T","U","V","W","X","Y","Z">>
LowerChars == <<"a","b","c","d","e","f","g","h","i","j","k","l","m",
                "n","o","p","q","r","s","t","u","v","w","x","y","z">>
DigitChars == <<"0","1","2","3","4","5","6","7","8","9">>

Range(f) == { f[k] : k \in DOMAIN f }

IsUpper(c) == c \in Range(UpperChars)
IsLetter(c) == c \in Range(UpperChars) \cup Range(LowerChars) \cup {"_"}
IsDigit(c) == c \in Range(DigitChars)
IsSpace(c) == c \in {" ", "\t", "\n", "\r"}

DigitVal(c) == (CHOOSE k \in 1..10 : DigitChars[k] = c) - 1

\* str.lower() on one character
LowerChar(c) ==
    IF IsUpper(c) THEN LowerChars[CHOOSE k \in 1..26 : UpperChars[k] = c]
    ELSE c

\* str.lower()
Lower(s) == [k \in 1..Len(s) |-> LowerChar(s[k])]

\* str.strip(): the string without its leading and trailing whitespace
Strip(s) ==
    LET nonws == { k \in 1..Len(s) : ~IsSpace(s[k]) }
    IN  IF nonws = {} THEN <<>>
        ELSE LET lo == CHOOSE k \in nonws : \A j \in nonws : k <= j
                 hi == CHOOSE k \in nonws : \A j \in nonws : k >= j
             IN  SubSeq(s, lo, hi)

\* str.partition(sep) for a one-character sep: <<head, sep, tail>>
Partition(s, sep) ==
    LET at == { k \in 1..Len(s) : s[k] = sep }
    IN  IF at = {} THEN <<s, <<>>, <<>>>>
        ELSE LET p == CHOOSE k \in at : \A j \in at : k <= j
             IN  <<SubSeq(s, 1, p - 1), <<sep>>, SubSeq(s, p + 1, Len(s))>>

RECURSIVE Pow10(_)
Pow10(k) == IF k = 0 THEN 1 ELSE 10 * Pow10(k - 1)

\* the value of a string of decimal digits
RECURSIVE DigitsVal(_)
DigitsVal(s) ==
    IF s = <<>> THEN 0
    ELSE 10 * DigitsVal(SubSeq(s, 1, Len(s) - 1)) + DigitVal(s[Len(s)])

\* the decimal digits of a natural number
RECURSIVE NatStr(_)
NatStr(k) ==
    IF k < 10 THEN <<DigitChars[k + 1]>>
    ELSE NatStr(k \div 10) \o <<DigitChars[(k % 10) + 1]>>

IntStr(k) == IF k < 0 THEN <<"-">> \o NatStr(-k) ELSE NatStr(k)

---------------------------------------------------------------------------
(* Python values.                                                          *)

PyVal(ty, n, e, s, items, vals) ==
    [ty |-> ty, n |-> n, e |-> e, s |-> s, items |-> items, vals |-> vals]

PyNone == PyVal("NoneType", 0, 0, <<>>, <<>>, <<>>)
PyEllipsis == PyVal("ellipsis", 0, 0, <<>>, <<>>, <<>>)
PyBool(b) == PyVal("bool", IF b THEN 1 ELSE 0, 0, <<>>, <<>>, <<>>)
PyInt(k) == PyVal("int", k, 0, <<>>, <<>>, <<>>)
PyStr(s) == PyVal("str", 0, 0, s, <<>>, <<>>)
PyList(xs) == PyVal("list", 0, 0, <<>>, xs, <<>>)
PyTuple(xs) == PyVal("tuple", 0, 0, <<>>, xs, <<>>)
PySet(xs) == PyVal("set", 0, 0, <<>>, xs, <<>>)
PyDict(ks, vs) == PyVal("dict", 0, 0, <<>>, ks, vs)

\* a float n / 10^e, with the trailing zeros of the fraction dropped
RECURSIVE PyFloat(_, _)
PyFloat(k, e) ==
    IF e > 0 /\ k % 10 = 0 THEN PyFloat(k \div 10, e - 1)
    ELSE PyVal("float", k, e, <<>>, <<>>, <<>>)

IsNumber(v) == v.ty \in {"bool", "int", "float"}
ContainerTypes == {"dict", "list", "set", "tuple"}

\* bool(v): the truth value Python's `and` / `or` test
Truthy(v) ==
    CASE v.ty = "NoneType" -> FALSE
      [] IsNumber(v) -> v.n # 0
      [] v.ty = "str" -> v.s # <<>>
      [] v.ty = "ellipsis" -> TRUE
      [] OTHER -> v.items # <<>>

\* hash(v) succeeds: v can be a set element or a dict key
RECURSIVE Hashable(_)
Hashable(v) ==
    CASE v.ty \in {"list", "set", "dict"} -> FALSE
      [] v.ty = "tuple" -> \A k \in 1..Len(v.items) : Hashable(v.items[k])
      [] OTHER -> TRUE

\* a == b for hashable values: numbers compare by value across bool, int, float
RECURSIVE PyEq(_, _)
PyEq(a, b) ==
    CASE IsNumber(a) /\ IsNumber(b) -> a.n = b.n /\ a.e = b.e
      [] a.ty = "tuple" /\ b.ty = "tuple" ->
            /\ Len(a.items) = Len(b.items)
            /\ \A k \in 1..Len(a.items) : PyEq(a.items[k], b.items[k])
      [] a.ty = "str" /\ b.ty = "str" -> a.s = b.s
      [] OTHER -> a.ty = b.ty /\ a.ty \in {"NoneType", "ellipsis"}

\* the elements of a set display: a later element equal to an earlier one is dropped
RECURSIVE Dedupe(_)
Dedupe(xs) ==
    IF xs = <<>> THEN <<>>
    ELSE LET init == Dedupe(SubSeq(xs, 1, Len(xs) - 1))
             x == xs[Len(xs)]
         IN  IF \E k \in 1..Len(init) : PyEq(init[k], x) THEN init
             ELSE Append(init, x)

\* a dict display: a later pair with an equal key replaces the earlier pair's value
RECURSIVE MakeDict(_, _)
MakeDict(ks, vs) ==
    IF ks = <<>> THEN PyDict(<<>>, <<>>)
    ELSE LET d == MakeDict(SubSeq(ks, 1, Len(ks) - 1), SubSeq(vs, 1, Len(vs) - 1))
             key == ks[Len(ks)]
             val == vs[Len(vs)]
             hit == { k \in 1..Len(d.items) : PyEq(d.items[k], key) }
         IN  IF hit = {} THEN PyDict(Append(d.items, key), Append(d.vals, val))
             ELSE PyDict(d.items,
                         [k \in 1..Len(d.vals) |-> IF k \in hit THEN val ELSE d.vals[k]])

---------------------------------------------------------------------------
(* The converters biodome() applies to the stripped string.                *)

Conv(ok, v) == [ok |-> ok, v |-> v]
ConvFail == Conv(FALSE, PyNone)

Unsigned(s) == IF s # <<>> /\ s[1] \in {"+", "-"} THEN Tail(s) ELSE s
Sign(s) == IF s # <<>> /\ s[1] = "-" THEN -1 ELSE 1
AllDigits(s) == \A k \in 1..Len(s) : IsDigit(s[k])

\* int(s): an optional sign and one or more decimal digits, whitespace around them
IntCast(s) ==
    LET body == Unsigned(Strip(s))
    IN  IF body # <<>> /\ AllDigits(body)
        THEN Conv(TRUE, PyInt(Sign(Strip(s)) * DigitsVal(body)))
        ELSE ConvFail

\* float(s): an optional sign, digits with at most one point, a digit on one side of it
FloatCast(s) ==
    LET body == Unsigned(Strip(s))
        parts == Partition(body, ".")
        whole == parts[1]
        frac == parts[3]
    IN  IF AllDigits(whole) /\ AllDigits(frac) /\ whole \o frac # <<>>
        THEN Conv(TRUE, PyFloat(Sign(Strip(s)) * DigitsVal(whole \o frac), Len(frac)))
        ELSE ConvFail

---------------------------------------------------------------------------
(* ast.literal_eval: a parser of literal syntax only.  A name other than   *)
(* True, False and None, a call (but the empty set, set()), an operator    *)
(* between two operands, a subscript or an attribute is refused.           *)

At(s, i) == IF i >= 1 /\ i <= Len(s) THEN s[i] ELSE ""

RECURSIVE RunEnd(_, _, _)
\* the first position from i on whose character is not in C
RunEnd(s, i, C) == IF At(s, i) \in C THEN RunEnd(s, i + 1, C) ELSE i

SkipWs(s, i) == RunEnd(s, i, {" ", "\t"})

\* the first position from i on that holds the character q, or 0
RECURSIVE Find(_, _, _)
Find(s, i, q) ==
    IF i > Len(s) THEN 0 ELSE IF s[i] = q THEN i ELSE Find(s, i + 1, q)

\* a parse: the value, the kind of node it came from (a constant, a signed
\* number, or a display) and the position after it
Parsed(v, k, i) == [ok |-> TRUE, v |-> v, k |-> k, i |-> i]
ParseFail == [ok |-> FALSE, v |-> PyNone, k |-> "", i |-> 0]

\* a parsed item list: the items, whether a comma was seen, the last item's kind
Items(xs, comma, k, i) == [ok |-> TRUE, items |-> xs, comma |-> comma, k |-> k, i |-> i]
ItemsFail == [ok |-> FALSE, items |-> <<>>, comma |-> FALSE, k |-> "", i |-> 0]

Pairs(ks, vs, i) == [ok |-> TRUE, items |-> ks, vals |-> vs, i |-> i]
PairsFail == [ok |-> FALSE, items |-> <<>>, vals |-> <<>>, i |-> 0]

\* a number token: digits, or digits with one point
ParseNumber(s, i) ==
    LET j == RunEnd(s, i, Range(DigitChars))
        whole == SubSeq(s, i, j - 1)
    IN  IF At(s, j) = "."
        THEN LET k == RunEnd(s, j + 1, Range(DigitChars))
                 frac == SubSeq(s, j + 1, k - 1)
             IN  IF whole \o frac = <<>> THEN ParseFail
                 ELSE Parsed(PyFloat(DigitsVal(whole \o frac), Len(frac)), "const", k)
        ELSE IF Len(whole) > 1 /\ whole[1] = "0" /\ DigitsVal(whole) # 0
             THEN ParseFail
             ELSE Parsed(PyInt(DigitsVal(whole)), "const", j)

\* the first position from i on where three characters q start, or 0
RECURSIVE FindTriple(_, _, _)
FindTriple(s, i, q) ==
    IF i + 2 > Len(s) THEN 0
    ELSE IF s[i] = q /\ s[i + 1] = q /\ s[i + 2] = q THEN i
    ELSE FindTriple(s, i + 1, q)

\* string tokens, quoted once or three times: adjacent string literals are
\* concatenated; a string quoted once does not span lines
RECURSIVE ParseString(_, _, _)
ParseString(s, i, acc) ==
    LET q == s[i]
        triple == At(s, i + 1) = q /\ At(s, i + 2) = q
        open == IF triple THEN i + 3 ELSE i + 1
        j == IF triple THEN FindTriple(s, open, q) ELSE Find(s, open, q)
        next == IF triple THEN j + 3 ELSE j + 1
        body == SubSeq(s, open, j - 1)
    IN  IF j = 0 \/ (~triple /\ \E k \in 1..Len(body) : body[k] = "\n") THEN ParseFail
        ELSE LET m == SkipWs(s, next)
             IN  IF At(s, m) \in {"'", "\""} THEN ParseString(s, m, acc \o body)
                 ELSE Parsed(PyStr(acc \o body), "const", next)

\* a name: True, False, None, or the call set()
ParseName(s, i) ==
    LET j == RunEnd(s, i, Range(UpperChars) \cup Range(LowerChars) \cup {"_"}
                              \cup Range(DigitChars))
        word == SubSeq(s, i, j - 1)
        m == SkipWs(s, j)
        c == SkipWs(s, m + 1)
    IN  CASE word = <<"T","r","u","e">> -> Parsed(PyBool(TRUE), "const", j)
          [] word = <<"F","a","l","s","e">> -> Parsed(PyBool(FALSE), "const", j)
          [] word = <<"N","o","n","e">> -> Parsed(PyNone, "const", j)
          [] word = <<"s","e","t">> /\ At(s, m) = "(" /\ At(s, c) = ")" ->
                Parsed(PySet(<<>>), "display", c + 1)
          [] OTHER -> ParseFail

RECURSIVE ParseExpr(_, _)
RECURSIVE ParseItems(_, _, _, _)
RECURSIVE ParsePairs(_, _, _, _)

\* a sign c in front of the operand x: only a number constant takes a sign
Signed(c, x) ==
    IF x.ok /\ x.k = "const" /\ x.v.ty \in {"int", "float"}
    THEN Parsed([x.v EXCEPT !.n = IF c = "-" THEN -x.v.n ELSE x.v.n], "signed", x.i)
    ELSE ParseFail

\* the items r between parentheses: one item without a comma is the item itself
Parenthesized(r) ==
    IF ~r.ok THEN ParseFail
    ELSE IF Len(r.items) = 1 /\ ~r.comma THEN Parsed(r.items[1], r.k, r.i)
    ELSE Parsed(PyTuple(r.items), "display", r.i)

\* the items r between brackets
ListDisplay(r) ==
    IF r.ok THEN Parsed(PyList(r.items), "display", r.i) ELSE ParseFail

\* the pairs p between braces: the keys are hashed
DictDisplay(p) ==
    IF p.ok /\ \A k \in 1..Len(p.items) : Hashable(p.items[k])
    THEN Parsed(MakeDict(p.items, p.vals), "display", p.i)
    ELSE ParseFail

\* the items r between braces: the elements are hashed
SetDisplay(r) ==
    IF r.ok /\ \A k \in 1..Len(r.items) : Hashable(r.items[k])
    THEN Parsed(PySet(Dedupe(r.items)), "display", r.i)
    ELSE ParseFail

\* what follows an opening brace at j, whose first expression parsed as `first`
RECURSIVE Braces(_, _, _)
Braces(s, j, first) ==
    IF At(s, j) = "}" THEN Parsed(PyDict(<<>>, <<>>), "display", j + 1)
    ELSE IF ~first.ok THEN ParseFail
    ELSE IF At(s, SkipWs(s, first.i)) = ":"
    THEN DictDisplay(ParsePairs(s, j, <<>>, <<>>))
    ELSE SetDisplay(ParseItems(s, j, "}", <<>>))

\* the expression starting at position i, whose first character is c
RECURSIVE ParseAt(_, _, _)
ParseAt(s, i, c) ==
    CASE c = "." /\ At(s, i + 1) = "." /\ At(s, i + 2) = "." ->
            Parsed(PyEllipsis, "const", i + 3)
      [] IsDigit(c) \/ c = "." -> ParseNumber(s, i)
      [] c \in {"'", "\""} -> ParseString(s, i, <<>>)
      [] IsLetter(c) -> ParseName(s, i)
      [] c \in {"+", "-"} -> Signed(c, ParseExpr(s, SkipWs(s, i + 1)))
      [] c = "(" -> Parenthesized(ParseItems(s, SkipWs(s, i + 1), ")", <<>>))
      [] c = "[" -> ListDisplay(ParseItems(s, SkipWs(s, i + 1), "]", <<>>))
      [] c = "{" -> Braces(s, SkipWs(s, i + 1), ParseExpr(s, SkipWs(s, i + 1)))
      [] OTHER -> ParseFail

\* one expression starting at position i (whitespace skipped)
ParseExpr(s, i) == ParseAt(s, i, At(s, i))

\* the item x was read and position j follows it: the closer, or a comma and
\* the rest of the items
RECURSIVE AfterItem(_, _, _, _, _)
AfterItem(s, closer, acc, x, j) ==
    IF At(s, j) = closer
    THEN Items(Append(acc, x.v), acc # <<>>, x.k, j + 1)
    ELSE IF At(s, j) = ","
         THEN ParseItems(s, SkipWs(s, j + 1), closer, Append(acc, x.v))
    ELSE ItemsFail

\* the item x of an item list
RECURSIVE Item(_, _, _, _)
Item(s, closer, acc, x) ==
    IF ~x.ok THEN ItemsFail ELSE AfterItem(s, closer, acc, x, SkipWs(s, x.i))

\* expressions separated by commas up to `closer` ("" closes at the end of
\* the string); i is where an item or the closer is expected
ParseItems(s, i, closer, acc) ==
    IF At(s, i) = closer
    THEN Items(acc, acc # <<>>, "display", i + 1)
    ELSE Item(s, closer, acc, ParseExpr(s, i))

\* the pair key: val was read and position j follows it
RECURSIVE AfterPair(_, _, _, _, _, _)
AfterPair(s, ks, vs, key, val, j) ==
    IF At(s, j) = "}"
    THEN Pairs(Append(ks, key.v), Append(vs, val.v), j + 1)
    ELSE IF At(s, j) = ","
         THEN ParsePairs(s, SkipWs(s, j + 1), Append(ks, key.v), Append(vs, val.v))
    ELSE PairsFail

\* the value val of the pair whose key is `key`
RECURSIVE PairValue(_, _, _, _, _)
PairValue(s, ks, vs, key, val) ==
    IF ~val.ok THEN PairsFail
    ELSE AfterPair(s, ks, vs, key, val, SkipWs(s, val.i))

\* the key of a pair was read and position m follows it: a colon and the value
RECURSIVE PairKey(_, _, _, _, _)
PairKey(s, ks, vs, key, m) ==
    IF At(s, m) # ":" THEN PairsFail
    ELSE PairValue(s, ks, vs, key, ParseExpr(s, SkipWs(s, m + 1)))

\* the pair that starts with the expression `key`
RECURSIVE Pair(_, _, _, _)
Pair(s, ks, vs, key) ==
    IF ~key.ok THEN PairsFail ELSE PairKey(s, ks, vs, key, SkipWs(s, key.i))

\* key: value pairs separated by commas up to the closing brace
ParsePairs(s, i, ks, vs) ==
    IF At(s, i) = "}"
    THEN Pairs(ks, vs, i + 1)
    ELSE Pair(s, ks, vs, ParseExpr(s, i))

\* the value of an expression list: one expression, or a tuple written
\* without parentheses; an empty list is no expression
Literal(r) ==
    IF ~r.ok \/ r.items = <<>> THEN ConvFail
    ELSE IF Len(r.items) = 1 /\ ~r.comma THEN Conv(TRUE, r.items[1])
    ELSE Conv(TRUE, PyTuple(r.items))

\* ast.literal_eval(s): the value of the literal, or a failure (an exception)
LiteralEval(s) == Literal(ParseItems(s, SkipWs(s, 1), "", <<>>))

---------------------------------------------------------------------------
(* str(value), as environ.__setitem__ stores it.                           *)

RECURSIVE PadZeros(_, _)
\* s with zeros in front up to length k
PadZeros(s, k) == IF Len(s) >= k THEN s ELSE PadZeros(<<"0">> \o s, k)

Abs(k) == IF k < 0 THEN -k ELSE k

RECURSIVE Repr(_)
RECURSIVE Join(_, _)

\* ", ".join(repr(x) for x in xs), from the k-th element on
Join(xs, k) ==
    IF k > Len(xs) THEN <<>>
    ELSE Repr(xs[k]) \o (IF k < Len(xs) THEN <<",", " ">> ELSE <<>>) \o Join(xs, k + 1)

RECURSIVE JoinPairs(_, _, _)
JoinPairs(ks, vs, k) ==
    IF k > Len(ks) THEN <<>>
    ELSE Repr(ks[k]) \o <<":", " ">> \o Repr(vs[k])
         \o (IF k < Len(ks) THEN <<",", " ">> ELSE <<>>) \o JoinPairs(ks, vs, k + 1)

\* repr(v)
Repr(v) ==
    CASE v.ty = "NoneType" -> <<"N","o","n","e">>
      [] v.ty = "ellipsis" -> <<"E","l","l","i","p","s","i","s">>
      [] v.ty = "bool" -> IF v.n = 1 THEN <<"T","r","u","e">> ELSE <<"F","a","l","s","e">>
      [] v.ty = "int" -> IntStr(v.n)
      [] v.ty = "float" ->
            (IF v.n < 0 THEN <<"-">> ELSE <<>>)
            \o NatStr(Abs(v.n) \div Pow10(v.e)) \o <<".">>
            \o (IF v.e = 0 THEN <<"0">> ELSE PadZeros(NatStr(Abs(v.n) % Pow10(v.e)), v.e))
      [] v.ty = "str" ->
            LET q == IF \E k \in 1..Len(v.s) : v.s[k] = "'" THEN "\"" ELSE "'"
            IN  <<q>> \o v.s \o <<q>>
      [] v.ty = "list" -> <<"[">> \o Join(v.items, 1) \o <<"]">>
      [] v.ty = "tuple" ->
            <<"(">> \o Join(v.items, 1)
            \o (IF Len(v.items) = 1 THEN <<",">> ELSE <<>>) \o <<")">>
      [] v.ty = "set" ->
            IF v.items = <<>> THEN <<"s","e","t","(",")">>
            ELSE <<"{">> \o Join(v.items, 1) \o <<"}">>
      [] OTHER -> <<"{">> \o JoinPairs(v.items, v.vals, 1) \o <<"}">>

\* str(v)
Str(v) == IF v.ty = "str" THEN v.s ELSE Repr(v)

---------------------------------------------------------------------------
(* biodome(name, default=None, *, cast=None).                              *)
(*                                                                         *)
(* A cast is the name of a callable: the types bool, int, float, str,      *)
(* list, dict, set, tuple, and two callables of the caller's: len, and     *)
(* abs, which raises on every string.  NoCast is cast=None and PyNone is   *)
(* default=None.                                                           *)

NoCast == "None"

\* what a call did: the exception it raised ("" for none) or the value it
\* returned, the log records it emitted, and os.environ after it
Outcome(exc, val, logs, e) == [exc |-> exc, val |-> val, logs |-> logs, env |-> e]
Return(val, e) == Outcome("", val, <<>>, e)
Raise(exc, e) == Outcome(exc, PyNone, <<>>, e)

\* the record logger.error() emits
LogRecord(name, raw, type_) ==
    [level |-> "ERROR", name |-> name, raw |-> raw, type |-> type_]

\* the values of raw_value.lower() that make a boolean target True
TruthyTokens ==
    { <<"1">>,
      <<"y">>,
      <<"y","e","s">>,
      <<"o","n">>,
      <<"a","c","t","i","v","e">>,
      <<"a","c","t","i","v","a","t","e","d">>,
      <<"e","n","a","b","l","e","d">>,
      <<"t","r","u","e">>,
      <<"t">>,
      <<"o","k">>,
      <<"y","e","a","h">> }

\* IsTruthy without the lowering: only lower-case tokens count
IsTruthyCaseSensitive(s) == s \in TruthyTokens

\* raw_value.lower() in (...)
IsTruthy(s) == Lower(s) \in TruthyTokens

\* BothGiven with the second test inverted: `cast is None`
BothGivenInverted(default, cast) == default # PyNone /\ cast = NoCast

\* default is not None and cast is not None
BothGiven(default, cast) == default # PyNone /\ cast # NoCast

\* cast(None), for an absent variable
CastNone(cast) ==
    CASE cast = "bool" -> Conv(TRUE, PyBool(FALSE))
      [] cast = "str" -> Conv(TRUE, PyStr(<<"N","o","n","e">>))
      [] OTHER -> ConvFail

\* type_(raw_value) for a target that is neither bool nor a container
CastStr(type_, s) ==
    CASE type_ = "int" -> IntCast(s)
      [] type_ = "float" -> FloatCast(s)
      [] type_ = "str" -> Conv(TRUE, PyStr(s))
      [] type_ = "len" -> Conv(TRUE, PyInt(Len(s)))
      [] OTHER -> ConvFail

\* (type(raw_value) == type_ and raw_value) or default
MatchOrDefault(parsed, type_, default) ==
    IF parsed.ty = type_ /\ Truthy(parsed) THEN parsed ELSE default

\* the container branch: what is returned for the literal ast.literal_eval made
Matched(literal, type_, default) ==
    IF literal.ok THEN Conv(TRUE, MatchOrDefault(literal.v, type_, default))
    ELSE ConvFail

\* the body of the try block: the value it returns, or a failure (an exception)
TryConvert(s, type_, default) ==
    IF type_ \in ContainerTypes
    THEN Matched(LiteralEval(s), type_, default)
    ELSE CastStr(type_, s)

\* Convert without the except clause: a failed conversion raises
ConvertUncaught(e, name, s, type_, default) ==
    LET made == TryConvert(s, type_, default)
    IN  IF made.ok THEN Return(made.v, e) ELSE Raise("ValueError", e)

\* the except clause around what the try block made
Except(made, e, name, s, type_, default) ==
    IF made.ok THEN Return(made.v, e)
    ELSE Outcome("", default, <<LogRecord(name, s, type_)>>, e)

\* the try block and its except clause
Convert(e, name, s, type_, default) ==
    Except(TryConvert(s, type_, default), e, name, s, type_, default)

\* Absent with the cast ignored: the default (None) comes back
AbsentIgnoresCast(e, default, cast) == Return(default, e)

\* cast(raw_value) for raw_value None: what it returns, or what it raises
CastAbsent(made, e) ==
    IF made.ok THEN Return(made.v, e) ELSE Raise("TypeError", e)

\* the branch for a variable that is not set
Absent(e, default, cast) ==
    IF default = PyNone /\ cast # NoCast
    THEN CastAbsent(CastNone(cast), e)
    ELSE Return(default, e)

\* the variable is set: s is the stripped value, type_ the target
Present(e, name, default, cast, s, type_) ==
    IF "bool" \in {cast, type_}
    THEN Return(PyBool(IsTruthy(s)), e)
    ELSE Convert(e, name, s, type_, default)

Biodome(e, name, default, cast) ==
    IF default = PyNone /\ cast = NoCast
    THEN Return(IF name \in DOMAIN e THEN PyStr(e[name]) ELSE PyNone, e)
    ELSE IF BothGiven(default, cast)
    THEN Raise("ValueError", e)
    ELSE IF name \notin DOMAIN e
    THEN Absent(e, default, cast)
    ELSE Present(e, name, default, cast, Strip(e[name]),
                 IF cast # NoCast THEN cast ELSE default.ty)

\* _Environ.get(key, default=None, *, cast=None)
Get(e, key, default, cast) == Biodome(e, key, default, cast)

\* _Environ.__setitem__(key, value): os.environ[key] = str(value)
SetItem(e, key, value) ==
    [n \in DOMAIN e \cup {key} |-> IF n = key THEN Str(value) ELSE e[n]]

\* del environ[key], for a key that is set
DelItem(e, key) == [n \in DOMAIN e \ {key} |-> e[n]]

\* functools.partial(func, key, default=default, cast=cast): the callable and
\* the arguments it holds (frozen: the outcome a constant callable returns)
Partial(func, key, default, cast, frozen) ==
    [func |-> func, key |-> key, default |-> default, cast |-> cast, frozen |-> frozen]

NoResult == [exc |-> "", val |-> PyNone]

\* get_callable that calls get at once and hands out the value it got
GetCallableEager(self, key, default, cast) ==
    LET r == Get(self, key, default, cast)
    IN  Partial("const", key, default, cast, [exc |-> r.exc, val |-> r.val])

\* _Environ.get_callable(key, default=None, cast=None); self.data is os.environ
GetCallable(self, key, default, cast) == Partial("get", key, default, cast, NoResult)

\* calling the partial: func(key, default=default, cast=cast) on os.environ as it is now
CallPartial(p, e) ==
    IF p.func = "get" THEN Get(e, p.key, p.default, p.cast)
    ELSE Outcome(p.frozen.exc, p.frozen.val, <<>>, e)

---------------------------------------------------------------------------
(* env_change(name, value): the generator up to its yield, and its finally *)
(* clause.  A frame is what the closure reset() holds: the name, whether   *)
(* it was set, and its old value.                                          *)

Frame(name, had, old) == [name |-> name, had |-> had, old |-> old]

\* `if name in environ: old = environ[name]`, then `environ[name] = value`
EnvChangeEnter(e, name, value) ==
    [frame |-> Frame(name, name \in DOMAIN e, IF name \in DOMAIN e THEN e[name] ELSE <<>>),
     env |-> SetItem(e, name, value)]

\* reset(): `environ[name] = old`, or `del environ[name]`, which raises
\* KeyError when the body has deleted the name
Reset(e, frame) ==
    IF frame.had THEN Return(PyNone, SetItem(e, frame.name, PyStr(frame.old)))
    ELSE IF frame.name \in DOMAIN e THEN Return(PyNone, DelItem(e, frame.name))
    ELSE Raise("KeyError", e)

\* the exit without `finally`: a body that raises skips reset()
EnvChangeExitNoFinally(e, frame, bodyExc) ==
    IF bodyExc # "" THEN Raise(bodyExc, e) ELSE Reset(e, frame)

\* the finally clause: reset() runs however the body ended; the body's
\* exception goes on unless reset() raises its own
EnvChangeExit(e, frame, bodyExc) ==
    LET r == Reset(e, frame)
    IN  IF r.exc = "" /\ bodyExc # "" THEN Raise(bodyExc, r.env) ELSE r

---------------------------------------------------------------------------
(* load_env_file(path, raises=False).  The file at path is its status (ok, *)
(* or the errno of the failure) and the lines read from it: for ENOENT and *)
(* EACCES open() fails; for EIO the read fails after the lines given.      *)

\* the loop body without the comment test: a comment line is assigned too
LoadLineNoComments(e, line) ==
    LET stripped == Strip(line)
        parts == Partition(stripped, "=")
    IN  IF stripped = <<>> THEN e
        ELSE SetItem(e, Strip(parts[1]), PyStr(Strip(parts[3])))

\* the loop body: one line of the file
LoadLine(e, line) ==
    LET stripped == Strip(line)
        parts == Partition(stripped, "=")
    IN  IF stripped = <<>> \/ stripped[1] = "#" THEN e
        ELSE SetItem(e, Strip(parts[1]), PyStr(Strip(parts[3])))

\* `for line in f`
RECURSIVE LoadLines(_, _)
LoadLines(e, lines) ==
    IF lines = <<>> THEN e
    ELSE LoadLine(LoadLines(e, SubSeq(lines, 1, Len(lines) - 1)), lines[Len(lines)])

\* the exception open() or the read raises for an errno
ErrorOf(status) ==
    CASE status = "ENOENT" -> "FileNotFoundError"
      [] status = "EACCES" -> "PermissionError"
      [] OTHER -> "OSError"

\* the except clause with `and` for `or`: `if e.errno != errno.ENOENT and raises`
LoadEnvFileAnd(e, status, lines, raises) ==
    LET read == IF status \in {"ok", "EIO"} THEN LoadLines(e, lines) ELSE e
    IN  IF status # "ok" /\ (status # "ENOENT" /\ raises)
        THEN Raise(ErrorOf(status), read)
        ELSE Return(PyNone, read)

LoadEnvFile(e, status, lines, raises) ==
    LET read == IF status \in {"ok", "EIO"} THEN LoadLines(e, lines) ELSE e
    IN  IF status # "ok" /\ (status # "ENOENT" \/ raises)
        THEN Raise(ErrorOf(status), read)
        ELSE Return(PyNone, read)

---------------------------------------------------------------------------
(* The inputs.                                                             *)

\* the longest string of the exhaustive part of the settings
MaxLen == 4

NameX == <<"X">>
NameY == <<"Y">>
Names == {NameX, NameY}

EmptyEnv == [n \in {} |-> <<>>]

\* every string over A of at most n characters
AllStrings(A, n) == UNION { [1..k -> A] : k \in 0..n }

\* the characters of the exhaustive settings: a digit and the punctuation
\* of list and tuple literals
LiteralChars == {"1", ",", "[", "]", "(", ")"}

\* the settings of the test suite's parameter tables, and literals around them
TestSettings ==
    { <<"1","2","3">>, <<>>, <<"0">>, <<"Y","E","S">>, <<"Y","e","s">>, <<"Y">>,
      <<"T","r","u","e">>, <<"T","R","U","E">>, <<"O","n">>, <<"O","N">>,
      <<"A","C","T","I","V","E">>, <<"A","c","t","i","v","e">>, <<"y","a","s">>,
      <<"b","l","a","h">>, <<"_","_","_","_">>, <<"h","e","y","y">>, <<"-","1","2","3">>,
      <<"1",".","2">>, <<"-","1",".","2">>, <<"1",".","0">>,
      <<"{","\"","a","\"",":"," ","1","}">>,
      <<"{","\"","a","\"",":"," ","\"","b","l","a","h","\"",","," ","\"","b","\"",":"," ","\"","b","l","e","h","\"","}">>,
      <<"[","1",","," ","2",","," ","3","]">>, <<"[","]">>, <<"[">>,
      <<"[","b","l","a","h","]">>, <<"[","\"","b","l","a","h","\"","]">>,
      <<"(","1",","," ","2",")">>, <<"(","1",",","2",")">>,
      <<"("," "," "," ","1"," "," "," ",","," "," "," ","2"," "," "," ",")">>,
      <<"(","1",")">>, <<"(","1",",",")">>, <<"1",".","0","5","3">>,
      <<"{","1",","," ","2","}">>, <<"{","\"","1","\"",":","2","}">>,
      <<"F","a","l","s","e">>, <<"f","a","l","s","e">>,
      <<"{","\"","a","\"",":"," ","1","2","3","}">>, <<"{","2","}">>,
      <<"l","i","s","t","(","1",",","2",",","3",")">>, <<"s","e","t","(","[","2","]",")">>,
      <<"d","i","c","t","(","a","=","1",")">>,
      <<"{","'","a","'",":"," ","[","1",","," ","2",","," ","3","]","}">>, <<"4","5","6">>,
      <<"5">>, <<"s","e","t","(",")">>, <<"s","e","t","("," ",")">>, <<"{","}">>,
      <<"(",")">>,
      <<"{","1",":"," ","1",","," ","1",".","0",":"," ","2",","," ","T","r","u","e",":"," ","3","}">>,
      <<"{","1",","," ","1",".","0",","," ","T","r","u","e",","," ","2","}">>,
      <<"{","(","1",","," ","2",")",":"," ","[","1","]","}">>,
      <<"{","[","1","]",":"," ","1","}">>, <<"{","{","1","}","}">>,
      <<"[","{","1",":"," ","{","2","}","}","]">>, <<"N","o","n","e">>,
      <<"[","N","o","n","e",","," ","T","r","u","e",","," ","F","a","l","s","e","]">>,
      <<"-","(","1",")">>, <<"(","-","1",")">>, <<"-","(","-","1",")">>, <<"-","-","1">>,
      <<"+","1",".","5">>, <<"1"," ","+"," ","1">>, <<"[","1","]","[","0","]">>, <<"O","K">>,
      <<" ","y","e","s"," ">>, <<"\t","O","N","\n">>,
      <<"y","e","s"," ","p","l","e","a","s","e">>, <<"y"," ","e"," ","s">>,
      <<"'","a","'"," ","\"","b","\"">>, <<"'","'">>, <<"[",".",".",".","]">>,
      <<"{",".",".",".",":"," ","1","}">>, <<"s","e","t"," ","("," ",")"," ">>,
      <<"s","e","t","(",")","(",")">>, <<"(","s","e","t","(",")",")">>,
      <<"{","s","e","t","(",")","}">>, <<"[","1",",",",","2","]">>, <<"[","1"," ","2","]">>,
      <<"(","1",",","2">>, <<"{","1",":","2">>, <<"{","1",":","2",",","}">>,
      <<"{","1",",","2",",","}">>, <<"{","1",":","2",","," ","3","}">>, <<"1",",","2",",">>,
      <<"(",")",",">>, <<"[","]",",","(",")">>, <<"0","0">>, <<"0","1">>,
      <<"0",".","1","0">>, <<"1","0">>, <<"-","0">> }

\* the truthy tokens in lower, upper and mixed case, padded with whitespace,
\* and strings one character away from them
BoolTexts ==
    { <<"1">>, <<" ","1","\n">>, <<"\t","1"," ">>, <<"1","s">>, <<"x","1">>, <<" ","1">>,
      <<"y">>, <<"Y">>, <<" ","y","\n">>, <<"\t","Y"," ">>, <<"y","s">>, <<"x","y">>,
      <<" ","y">>, <<"y","e","s">>, <<"Y","E","S">>, <<"Y","e","s">>,
      <<" ","y","e","s","\n">>, <<"\t","Y","E","S"," ">>, <<"y","e","s","s">>,
      <<"x","y","e","s">>, <<"y","e"," ","s">>, <<"o","n">>, <<"O","N">>, <<"O","n">>,
      <<" ","o","n","\n">>, <<"\t","O","N"," ">>, <<"o","n","s">>, <<"x","o","n">>,
      <<"o"," ","n">>, <<"a","c","t","i","v","e">>, <<"A","C","T","I","V","E">>,
      <<"A","c","t","i","v","e">>, <<" ","a","c","t","i","v","e","\n">>,
      <<"\t","A","C","T","I","V","E"," ">>, <<"a","c","t","i","v","e","s">>,
      <<"x","a","c","t","i","v","e">>, <<"a","c","t","i","v"," ","e">>,
      <<"a","c","t","i","v","a","t","e","d">>, <<"A","C","T","I","V","A","T","E","D">>,
      <<"A","c","t","i","v","a","t","e","d">>,
      <<" ","a","c","t","i","v","a","t","e","d","\n">>,
      <<"\t","A","C","T","I","V","A","T","E","D"," ">>,
      <<"a","c","t","i","v","a","t","e","d","s">>,
      <<"x","a","c","t","i","v","a","t","e","d">>,
      <<"a","c","t","i","v","a","t","e"," ","d">>, <<"e","n","a","b","l","e","d">>,
      <<"E","N","A","B","L","E","D">>, <<"E","n","a","b","l","e","d">>,
      <<" ","e","n","a","b","l","e","d","\n">>, <<"\t","E","N","A","B","L","E","D"," ">>,
      <<"e","n","a","b","l","e","d","s">>, <<"x","e","n","a","b","l","e","d">>,
      <<"e","n","a","b","l","e"," ","d">>, <<"t","r","u","e">>, <<"T","R","U","E">>,
      <<"T","r","u","e">>, <<" ","t","r","u","e","\n">>, <<"\t","T","R","U","E"," ">>,
      <<"t","r","u","e","s">>, <<"x","t","r","u","e">>, <<"t","r","u"," ","e">>, <<"t">>,
      <<"T">>, <<" ","t","\n">>, <<"\t","T"," ">>, <<"t","s">>, <<"x","t">>, <<" ","t">>,
      <<"o","k">>, <<"O","K">>, <<"O","k">>, <<" ","o","k","\n">>, <<"\t","O","K"," ">>,
      <<"o","k","s">>, <<"x","o","k">>, <<"o"," ","k">>, <<"y","e","a","h">>,
      <<"Y","E","A","H">>, <<"Y","e","a","h">>, <<" ","y","e","a","h","\n">>,
      <<"\t","Y","E","A","H"," ">>, <<"y","e","a","h","s">>, <<"x","y","e","a","h">>,
      <<"y","e","a"," ","h">>, <<"f","a","l","s","e">>, <<"F","a","l","s","e">>, <<"0">>,
      <<"n","o">>, <<"o","f","f">>, <<>>, <<" "," ">>, <<"2">>, <<"1","1">>,
      <<"T","r","u","e","e">>, <<"t","r","u">> }

\* the values the variable is given for a call of biodome()
Settings == AllStrings(LiteralChars, MaxLen) \cup TestSettings \cup BoolTexts

\* the defaults and the casts of the calls
Defaults ==
    { PyBool(TRUE), PyBool(FALSE), PyInt(2), PyInt(0), PyFloat(1, 1),
      PyStr(<<"2">>), PyList(<<>>), PyList(<<PyInt(7)>>), PyDict(<<>>, <<>>),
      PyTuple(<<>>), PyTuple(<<PyInt(1), PyInt(2)>>),
      PySet(<<PyInt(1), PyInt(2), PyInt(3)>>) }

Casts == {"bool", "int", "float", "str", "list", "dict", "set", "tuple", "len", "abs"}

Call(name, default, cast) == [name |-> name, default |-> default, cast |-> cast]
NoCall == Call(<<>>, PyNone, NoCast)
NoLoad == [status |-> "", raises |-> FALSE, lines |-> <<>>]
NoFrame == [name |-> <<>>, had |-> FALSE, old |-> <<>>]
NoExit == [frame |-> NoFrame, entry |-> EmptyEnv, body |-> ""]

\* default and cast with at most one of them given
OneOrNone ==
    { <<PyNone, NoCast>> } \cup { <<d, NoCast>> : d \in Defaults }
    \cup { <<PyNone, c>> : c \in Casts }

\* default and cast both given
Both == { <<d, c>> : d \in Defaults, c \in Casts }

---------------------------------------------------------------------------
(* The coercion function on every setting: the variable X is absent or     *)
(* set to one of Settings, and biodome() is called once.                   *)

InitRest ==
    /\ op = "init"
    /\ args = NoCall
    /\ result = NoResult
    /\ emitted = <<>>
    /\ preEnv = env
    /\ frames = <<>>
    /\ entryEnv = <<>>
    /\ exited = NoExit
    /\ loaded = NoLoad
    /\ accessor = {}

InitCoerce ==
    /\ env \in {EmptyEnv} \cup { [n \in {NameX} |-> v] : v \in Settings }
    /\ InitRest

\* a call biodome(name, default, cast=cast) and what it leaves behind
Called(label, name, default, cast, r) ==
    /\ op' = label
    /\ args' = Call(name, default, cast)
    /\ result' = [exc |-> r.exc, val |-> r.val]
    /\ emitted' = r.logs
    /\ preEnv' = env
    /\ env' = r.env
    /\ UNCHANGED <<frames, entryEnv, exited, loaded, accessor>>

CoerceOnce ==
    /\ op = "init"
    /\ \E p \in OneOrNone :
          Called("biodome", NameX, p[1], p[2], Biodome(env, NameX, p[1], p[2]))

NextCoerce == CoerceOnce

SpecCoerce == InitCoerce /\ [][NextCoerce]_vars

---------------------------------------------------------------------------
(* The facade: assignments and deletions through environ, and calls of     *)
(* biodome() and environ.get() with every pair of default and cast.        *)

\* the values assigned through environ[key] = value
StoredValues == { PyInt(1), PyStr(<<" ","y","e","s"," ">>), PyList(<<PyInt(1)>>) }

\* os.environ with some of Names set to the strings of StoredValues
StoredEnvs ==
    UNION { [S -> { Str(v) : v \in StoredValues }] : S \in SUBSET Names }

\* a step that is no call of biodome: nothing returned, nothing logged
Stepped(label, name, value, e) ==
    /\ op' = label
    /\ args' = Call(name, value, NoCast)
    /\ result' = NoResult
    /\ emitted' = <<>>
    /\ preEnv' = env
    /\ env' = e

Assign ==
    \E key \in Names, value \in StoredValues :
        /\ Stepped("setitem", key, value, SetItem(env, key, value))
        /\ UNCHANGED <<frames, entryEnv, exited, loaded, accessor>>

Delete ==
    \E key \in DOMAIN env :
        /\ Stepped("delitem", key, PyNone, DelItem(env, key))
        /\ UNCHANGED <<frames, entryEnv, exited, loaded, accessor>>

CallBiodome ==
    \E name \in Names, p \in OneOrNone \cup Both :
        Called("biodome", name, p[1], p[2], Biodome(env, name, p[1], p[2]))

CallGet ==
    \E key \in Names, p \in OneOrNone \cup Both :
        Called("get", key, p[1], p[2], Get(env, key, p[1], p[2]))

InitUsage == env \in StoredEnvs /\ InitRest

NextUsage == Assign \/ Delete \/ CallBiodome \/ CallGet

SpecUsage == InitUsage /\ [][NextUsage]_vars

---------------------------------------------------------------------------
(* The deferred accessor: one variable of the caller holds the accessor    *)
(* get_callable made last, with (for the claims) os.environ as it was      *)
(* when it was made.                                                       *)

DeferredPairs ==
    { <<PyNone, NoCast>>, <<PyBool(FALSE), NoCast>>, <<PyInt(2), NoCast>>,
      <<PyList(<<>>), NoCast>>, <<PyNone, "bool">>, <<PyNone, "int">>,
      <<PyNone, "list">>, <<PyNone, "str">>, <<PyInt(2), "int">> }

MakeAccessor ==
    \E key \in Names, p \in DeferredPairs :
        /\ accessor' = { [partial |-> GetCallable(env, key, p[1], p[2]), madeIn |-> env] }
        /\ op' = "get_callable"
        /\ args' = Call(key, p[1], p[2])
        /\ result' = NoResult
        /\ emitted' = <<>>
        /\ preEnv' = env
        /\ UNCHANGED <<env, frames, entryEnv, exited, loaded>>

InvokeAccessor ==
    \E a \in accessor :
        Called("invoke", a.partial.key, a.partial.default, a.partial.cast,
               CallPartial(a.partial, env))

InitFacade == env = EmptyEnv /\ InitRest

NextFacade == Assign \/ Delete \/ MakeAccessor \/ InvokeAccessor

SpecFacade == InitFacade /\ [][NextFacade]_vars

---------------------------------------------------------------------------
(* The scoped override: scopes nest, and the body of a scope may assign    *)
(* and delete any name.                                                    *)

\* the deepest nesting of scopes
MaxDepth == 3

ScopeValues == { PyInt(123), PyStr(<<"4","5","6">>) }

\* os.environ cut down to the names in S
Restrict(e, S) == [n \in S \cap DOMAIN e |-> e[n]]

Enter ==
    /\ Len(frames) < MaxDepth
    /\ \E name \in Names, value \in ScopeValues :
          LET r == EnvChangeEnter(env, name, value)
          IN  /\ Stepped("enter", name, value, r.env)
              /\ frames' = Append(frames, r.frame)
              /\ entryEnv' = Append(entryEnv, Restrict(env, {name}))
              /\ exited' = NoExit
              /\ UNCHANGED <<loaded, accessor>>

BodyAssign ==
    \E key \in Names, value \in ScopeValues :
        /\ Stepped("setitem", <<>>, PyNone, SetItem(env, key, value))
        /\ exited' = NoExit
        /\ UNCHANGED <<frames, entryEnv, loaded, accessor>>

BodyDelete ==
    \E key \in DOMAIN env :
        /\ Stepped("delitem", <<>>, PyNone, DelItem(env, key))
        /\ exited' = NoExit
        /\ UNCHANGED <<frames, entryEnv, loaded, accessor>>

\* the innermost scope exits: its body returned, or raised
Exit ==
    /\ frames # <<>>
    /\ \E bodyExc \in {"", "RuntimeError"} :
          LET frame == frames[Len(frames)]
              r == EnvChangeExit(env, frame, bodyExc)
          IN  /\ op' = "exit"
              /\ args' = NoCall
              /\ result' = [exc |-> r.exc, val |-> r.val]
              /\ emitted' = r.logs
              /\ preEnv' = env
              /\ env' = r.env
              /\ exited' = [frame |-> frame, entry |-> entryEnv[Len(entryEnv)],
                            body |-> bodyExc]
              /\ frames' = SubSeq(frames, 1, Len(frames) - 1)
              /\ entryEnv' = SubSeq(entryEnv, 1, Len(entryEnv) - 1)
              /\ UNCHANGED <<loaded, accessor>>

InitScope == env = EmptyEnv /\ InitRest

NextScope == Enter \/ BodyAssign \/ BodyDelete \/ Exit

SpecScope == InitScope /\ [][NextScope]_vars

---------------------------------------------------------------------------
(* The file loader, on every file of at most MaxLines lines.               *)

\* the most lines of a file
MaxLines == 2

\* the longest line of the exhaustive part of the lines
MaxLineLen == 2

LineChars == {"X", "=", " "}

FileLines ==
    { <<"#">>, <<" ","#","X","=","1">>, <<"#"," ","X","=","1","\n">>,
      <<"X","_","S","E","T","=","1","2","3">>, <<"X","=","1","\n">>,
      <<" ","X"," ","="," ","1","=","2"," ","\n">>, <<"X","=","#","1">>,
      <<"X","#","=","1">>, <<"Y","=","2">>, <<"Y","=","=">>, <<"\n">>,
      <<"X"," ","Y","=","1"," ","2">> }

\* the lines whose name part is not empty: os.environ has no empty name
Lines ==
    { l \in AllStrings(LineChars, MaxLineLen) \cup FileLines :
        Strip(l) = <<>> \/ Strip(l)[1] # "=" }

Files == UNION { [1..k -> Lines] : k \in 0..MaxLines }

\* what was read of a file when the read failed
PartialReads == { f \in Files : Len(f) <= 1 }

Load ==
    \E status \in {"ok", "ENOENT", "EACCES", "EIO"}, raises \in BOOLEAN :
        \E lines \in (CASE status = "ok" -> Files
                        [] status = "EIO" -> PartialReads
                        [] OTHER -> {<<>>}) :
            LET r == LoadEnvFile(env, status, lines, raises)
            IN  /\ op' = "load"
                /\ loaded' = [status |-> status, raises |-> raises, lines |-> lines]
                /\ args' = NoCall
                /\ result' = [exc |-> r.exc, val |-> r.val]
                /\ emitted' = r.logs
                /\ preEnv' = env
                /\ env' = r.env
                /\ UNCHANGED <<frames, entryEnv, exited, accessor>>

LoadOnce == op = "init" /\ Load

InitLoad ==
    /\ env \in { EmptyEnv, [n \in Names |-> <<"0">>] }
    /\ InitRest

NextLoad == LoadOnce

SpecLoad == InitLoad /\ [][NextLoad]_vars

---------------------------------------------------------------------------
(* Claims about the coercion function (SpecCoerce).                        *)

CalledBiodome == op = "biodome"
WasPresent == args.name \in DOMAIN preEnv
ExactlyOne == (args.default = PyNone) # (args.cast = NoCast)
\* the stripped value the call worked on, and the target shape it chose
Stripped == Strip(preEnv[args.name])
Target == IF args.cast # NoCast THEN args.cast ELSE args.default.ty
Returned(v) == result = [exc |-> "", val |-> v]

CallStyleTexts ==
    { <<"l","i","s","t","(","1",",","2",",","3",")">>,
      <<"s","e","t","(","[","2","]",")">>,
      <<"d","i","c","t","(","a","=","1",")">> }
MalformedTexts == { <<"[">>, <<"[","b","l","a","h","]">> }

\* parsing or conversion of the stripped value to the target fails
ConversionFails ==
    \/ Target = "int" /\ ~IntCast(Stripped).ok
    \/ Target = "float" /\ ~FloatCast(Stripped).ok
    \/ Target = "abs"
    \/ Target \in ContainerTypes /\ ~LiteralEval(Stripped).ok

\* C1: a call on a present variable with exactly one of default / cast given
\* raises nothing; when parsing or conversion fails (a non-numeric string or
\* "1.0" to int, a converter that raises, a malformed literal, call-style
\* text against a container target) it returns exactly the default.
FailureContained ==
    (CalledBiodome /\ WasPresent /\ ExactlyOne) =>
        /\ result.exc = ""
        /\ ConversionFails => Returned(args.default)
        /\ (Target = "int" /\ Stripped = <<"1",".","0">>) => Returned(args.default)
        /\ (Target \in ContainerTypes /\ Stripped \in CallStyleTexts \cup MalformedTexts)
              => Returned(args.default)

FailureContainedWitness ==
    /\ CalledBiodome
    /\ preEnv = [n \in {NameX} |-> <<"l","i","s","t","(","1",",","2",",","3",")">>]
    /\ args.default = PyList(<<PyInt(7)>>)
    /\ Returned(PyList(<<PyInt(7)>>))

\* the truthy tokens as the specification lists them
ListedTruthy ==
    { <<"1">>, <<"y">>, <<"y","e","s">>, <<"o","n">>, <<"a","c","t","i","v","e">>,
      <<"a","c","t","i","v","a","t","e","d">>, <<"e","n","a","b","l","e","d">>,
      <<"t","r","u","e">>, <<"t">>, <<"o","k">>, <<"y","e","a","h">> }

\* C2: for a present variable and a boolean target (cast=bool, or a default
\* that is True or False) the result is True iff the lowercased, trimmed value
\* is a listed token, and False for every other string; the default plays no part.
BoolTarget ==
    (CalledBiodome /\ WasPresent /\ ExactlyOne
        /\ (args.cast = "bool" \/ args.default.ty = "bool")) =>
        /\ Returned(PyBool(Lower(Stripped) \in ListedTruthy))
        /\ emitted = <<>>

BoolTargetWitness ==
    /\ CalledBiodome
    /\ preEnv = [n \in {NameX} |-> <<"\t","Y","E","S"," ">>]
    /\ args.default = PyBool(FALSE)
    /\ Returned(PyBool(TRUE))

\* C3: for a present variable and a container target K, every string that
\* parses to a literal of type exactly K, the empty container of kind K
\* included, yields the parsed value whatever the default is; the call falls
\* back to the default only if parsing fails or the parsed type is not K.
ContainerParsed ==
    (CalledBiodome /\ WasPresent /\ ExactlyOne /\ Target \in ContainerTypes) =>
        LET parsed == LiteralEval(Stripped)
        IN  IF parsed.ok /\ parsed.v.ty = Target
            THEN Returned(parsed.v)
            ELSE Returned(args.default)

\* C4: for an absent variable, biodome(name) returns None; with a cast and no
\* default it returns cast(None), or raises what cast(None) raises; with a
\* default and no cast it returns the default; os.environ is unchanged.
AbsentVariable ==
    (CalledBiodome /\ ~WasPresent) =>
        /\ env = preEnv
        /\ emitted = <<>>
        /\ (args.default = PyNone /\ args.cast = NoCast) => Returned(PyNone)
        /\ (args.default = PyNone /\ args.cast # NoCast) =>
              IF CastNone(args.cast).ok
              THEN Returned(CastNone(args.cast).v)
              ELSE result.exc = "TypeError"
        /\ (args.default # PyNone /\ args.cast = NoCast) => Returned(args.default)

AbsentVariableWitness ==
    /\ CalledBiodome
    /\ ~WasPresent
    /\ args.cast = "int"
    /\ result.exc = "TypeError"

\* C10: a call on a present variable that returns the default because the
\* value did not convert to the target shape (a parse failure, a numeric
\* conversion failure, a parsed container of another type) emits exactly one
\* error record with the name, the value and the target; a call that converts,
\* a boolean target and an absent variable emit none.
FallbackLogged ==
    CalledBiodome =>
        IF /\ WasPresent
           /\ ExactlyOne
           /\ Target # "bool"
           /\ \/ ConversionFails
              \/ /\ Target \in ContainerTypes
                 /\ LiteralEval(Stripped).ok
                 /\ LiteralEval(Stripped).v.ty # Target
        THEN emitted = <<LogRecord(args.name, Stripped, Target)>>
        ELSE emitted = <<>>

---------------------------------------------------------------------------
(* Claims about the usage error (SpecUsage).                               *)

\* C5: biodome(name, default, cast) and environ.get(name, default, cast)
\* with both default and cast given raise the usage error, whether the
\* variable is set or not and whatever its value, return nothing, and leave
\* os.environ unchanged.
UsageErrorRaised ==
    (op \in {"biodome", "get"} /\ args.default # PyNone /\ args.cast # NoCast) =>
        /\ result = [exc |-> "ValueError", val |-> PyNone]
        /\ emitted = <<>>
        /\ env = preEnv

UsageErrorRaisedWitness ==
    /\ op = "get"
    /\ args = Call(NameX, PyInt(2), "int")
    /\ preEnv = [n \in {NameX} |-> <<"1">>]
    /\ result.exc = "ValueError"

---------------------------------------------------------------------------
(* Claims about the deferred accessor (SpecFacade).                        *)

\* C9: get_callable neither reads nor changes os.environ: the accessor it
\* makes holds the function and its arguments and no value.  Every
\* invocation of the accessor yields what environ.get(key, default, cast)
\* yields in os.environ as it is at the invocation.
DeferredAccessor ==
    /\ op = "get_callable" =>
          /\ env = preEnv
          /\ accessor = { [partial |-> [func |-> "get", key |-> args.name,
                                        default |-> args.default, cast |-> args.cast,
                                        frozen |-> NoResult],
                           madeIn |-> env] }
    /\ op = "invoke" =>
          LET now == Get(env, args.name, args.default, args.cast)
          IN  /\ env = preEnv
              /\ result = [exc |-> now.exc, val |-> now.val]
              /\ emitted = now.logs

\* an accessor made while X was not set, invoked after X = 1 was assigned
DeferredAccessorWitness ==
    /\ op = "invoke"
    /\ args = Call(NameX, PyInt(2), NoCast)
    /\ \E a \in accessor : NameX \notin DOMAIN a.madeIn
    /\ result = [exc |-> "", val |-> PyInt(1)]

---------------------------------------------------------------------------
(* Claims about the scoped override (SpecScope).                           *)

\* C6: on entry env_change(name, value) binds name to str(value); after the
\* exit, whether the body returned or raised and whatever it did to name
\* (assigned it, deleted it, nested another override of it), name is absent
\* if it was absent before the entry and else bound to its string of then.
\* Entry and exit change no other variable.
ScopedRestore ==
    /\ op = "enter" =>
          /\ args.name \in DOMAIN env
          /\ env[args.name] = Str(args.default)
          /\ args.default = PyInt(123) => env[args.name] = <<"1","2","3">>
          /\ Restrict(env, Names \ {args.name}) = Restrict(preEnv, Names \ {args.name})
    /\ op = "exit" =>
          /\ Restrict(env, {exited.frame.name}) = exited.entry
          /\ Restrict(env, Names \ {exited.frame.name})
                = Restrict(preEnv, Names \ {exited.frame.name})

\* a nested scope on X, entered with X = "456" and left by an exception
\* after its body deleted X
ScopedRestoreWitness ==
    /\ op = "exit"
    /\ exited.body = "RuntimeError"
    /\ exited.frame.name = NameX
    /\ exited.entry = [n \in {NameX} |-> <<"4","5","6">>]
    /\ NameX \notin DOMAIN preEnv
    /\ Len(frames) = 1
    /\ frames[1].name = NameX
    /\ env[NameX] = <<"4","5","6">>

---------------------------------------------------------------------------
(* Claims about the file loader (SpecLoad).                                *)

\* line k of the file is neither blank nor a comment
Assigns(line) == Strip(line) # <<>> /\ Strip(line)[1] # "#"
\* the position of the first "=" of a string, or one past its end
FirstEquals(s) ==
    IF \E k \in 1..Len(s) : s[k] = "="
    THEN CHOOSE k \in 1..Len(s) : s[k] = "=" /\ \A j \in 1..(k - 1) : s[j] # "="
    ELSE Len(s) + 1
NameOf(line) == Strip(SubSeq(Strip(line), 1, FirstEquals(Strip(line)) - 1))
ValueOf(line) == Strip(SubSeq(Strip(line), FirstEquals(Strip(line)) + 1, Len(Strip(line))))

MissingFile ==
    op = "load" =>
        /\ loaded.status = "ENOENT" =>
              /\ env = preEnv
              /\ result.exc = IF loaded.raises THEN "FileNotFoundError" ELSE ""
        /\ loaded.status = "EACCES" => result.exc = "PermissionError"
        /\ loaded.status = "EIO" => result.exc = "OSError"

MissingFileWitness ==
    /\ op = "load"
    /\ loaded = [status |-> "ENOENT", raises |-> TRUE, lines |-> <<>>]
    /\ preEnv = [n \in Names |-> <<"0">>]
    /\ result.exc = "FileNotFoundError"

=============================================================================
